---- MODULE Spec2Model ----
(***************************************************************************)
(* PID tuning parameters (tools/pid/params.py) and the Ziegler-Nichols     *)
(* calculation (tools/pid/tune.py).                                        *)
(*                                                                         *)
(* Numbers are exact rationals <<numerator, denominator>> in lowest terms  *)
(* with a positive denominator, so that Python's == on two numbers is      *)
(* equality of the pairs.  Rounding, overflow and underflow of IEEE        *)
(* doubles are outside this model.                                         *)
(***************************************************************************)
EXTENDS Integers, Sequences, FiniteSets

VARIABLES
    x,        \* conversion chain: the object the next call is made on
    orig,     \* conversion chain: the object as constructed
    trail,    \* conversion chain: the targets of the convert() calls so far
    cerr,     \* conversion chain: outcome of the last convert() call
    ctype,    \* conversion chain: last value read from x.controller_type
    p,        \* ParallelTuningParams instance
    p0,       \* that instance as constructed
    call,     \* last setter call on p: property, value, and p before the call
    perr,     \* outcome of the last setter call on p
    zcall,    \* last ziegler_nichols call: its arguments
    zret,     \* what that call returned
    zerr,     \* the error that call raised
    zwarn     \* whether that call logged a warning

convvars == <<x, orig, trail, cerr, ctype>>
parvars == <<p, p0, call, perr>>
znvars == <<zcall, zret, zerr, zwarn>>
vars == <<x, orig, trail, cerr, ctype, p, p0, call, perr, zcall, zret, zerr, zwarn>>

----------------------------------------------------------------------------
(* Bounds *)

MaxNum == 2
MaxDen == 2
MaxPV == 3
MaxHops == 2

----------------------------------------------------------------------------
(* Arithmetic on numbers *)

Abs(n) == IF n < 0 THEN -n ELSE n

RECURSIVE GCD(_, _)
GCD(a, b) == IF b = 0 THEN a ELSE GCD(b, a % b)

\* the number n/d (d # 0), in lowest terms
Rat(n, d) ==
    LET s == IF d < 0 THEN -1 ELSE 1
        g == GCD(Abs(n), Abs(d))
    IN  <<(s * n) \div g, (s * d) \div g>>

FMul(a, b) == Rat(a[1] * b[1], a[2] * b[2])
\* a / b for b # 0; Python raises ZeroDivisionError when b = 0, which every
\* caller below decides before dividing
FDiv(a, b) == Rat(a[1] * b[2], a[2] * b[1])
FSub(a, b) == Rat(a[1] * b[2] - b[1] * a[2], a[2] * b[2])
FLt(a, b) == a[1] * b[2] < b[1] * a[2]
FLe(a, b) == a[1] * b[2] <= b[1] * a[2]

Zero == Rat(0, 1)
Hundred == Rat(100, 1)
Sixty == Rat(60, 1)

\* the numbers the inputs are drawn from
Vals == {Rat(n, d) : n \in -1..MaxNum, d \in 1..MaxDen}

----------------------------------------------------------------------------
(* TuningType and the representations *)

TuningType == {"P", "PI", "PD", "PID"}

DependentTuningParams(kp, ti, td) ==
    [kind |-> "Dependent", kp |-> kp, ti |-> ti, td |-> td]

IndependentTuningParams(kp, ki, kd) ==
    [kind |-> "Independent", kp |-> kp, ki |-> ki, kd |-> kd]

ParallelTuningParams(pv_min, pv_max, pband, int, deriv) ==
    [kind |-> "Parallel", pv_min |-> pv_min, pv_max |-> pv_max,
     pband |-> pband, int |-> int, deriv |-> deriv]

\* DependentTuningParams.controller_type
Dependent_controller_type(self) ==
    IF self.ti = Zero /\ self.td = Zero THEN "P"
    ELSE IF self.td = Zero THEN "PI"
    ELSE IF self.ti = Zero THEN "PD"
    ELSE "PID"

\* IndependentTuningParams.to_dependent
Independent_to_dependent(self) ==
    LET ti == IF self.ki # Zero THEN FDiv(self.kp, self.ki) ELSE Zero
        td == IF self.kp # Zero THEN FDiv(self.kd, self.kp) ELSE Zero
    IN  DependentTuningParams(self.kp, ti, td)

\* a slip: the derivative gain is copied from td, not scaled by kp
Independent_from_dependent_slip(dep_params) ==
    IndependentTuningParams(
        dep_params.kp,
        IF dep_params.ti # Zero THEN FDiv(dep_params.kp, dep_params.ti) ELSE Zero,
        dep_params.td)

\* IndependentTuningParams.from_dependent
Independent_from_dependent(dep_params) ==
    IndependentTuningParams(
        dep_params.kp,
        IF dep_params.ti # Zero THEN FDiv(dep_params.kp, dep_params.ti) ELSE Zero,
        FMul(dep_params.td, dep_params.kp))

\* a copy-and-paste slip: the derivative time is read from the integral field
Parallel_to_dependent_slip(self) ==
    DependentTuningParams(
        IF self.pband # Zero THEN FDiv(Hundred, self.pband) ELSE Zero,
        FMul(self.int, Sixty),
        FMul(self.int, Sixty))

\* ParallelTuningParams.to_dependent
Parallel_to_dependent(self) ==
    DependentTuningParams(
        IF self.pband # Zero THEN FDiv(Hundred, self.pband) ELSE Zero,
        FMul(self.int, Sixty),
        FMul(self.deriv, Sixty))

\* ParallelTuningParams.from_dependent: pv_min and pv_max take the
\* constructor's defaults 0 and 100
Parallel_from_dependent(dep_params) ==
    ParallelTuningParams(
        Zero, Hundred,
        IF dep_params.kp # Zero THEN FDiv(Hundred, dep_params.kp) ELSE Zero,
        FDiv(dep_params.ti, Sixty),
        FDiv(dep_params.td, Sixty))

\* self.to_dependent() on a TuningParamsCodec, by the class of self
to_dependent(self) ==
    IF self.kind = "Independent" THEN Independent_to_dependent(self)
    ELSE Parallel_to_dependent(self)

\* to.from_dependent(dep_params), by the class to
from_dependent(to, dep_params) ==
    IF to = "Independent" THEN Independent_from_dependent(dep_params)
    ELSE Parallel_from_dependent(dep_params)

\* TuningParamsCodec.controller_type
Codec_controller_type(self) == Dependent_controller_type(to_dependent(self))

\* x.controller_type, by the class of x
controller_type(self) ==
    IF self.kind = "Dependent" THEN Dependent_controller_type(self)
    ELSE Codec_controller_type(self)

\* the classes convert() may be asked for; "Unsupported" is a class that is
\* neither DependentTuningParams nor a TuningParamsCodec
CodecKinds == {"Independent", "Parallel"}
TargetKinds == {"Dependent", "Independent", "Parallel", "Unsupported"}

\* DependentTuningParams.convert: what it returns, or the error it raises
Dependent_convert(self, to) ==
    IF to = self.kind THEN [ret |-> self, err |-> "none"]
    ELSE IF to \in CodecKinds
         THEN [ret |-> from_dependent(to, self), err |-> "none"]
    ELSE [ret |-> self, err |-> "ValueError"]

\* TuningParamsCodec.convert
Codec_convert(self, to) == Dependent_convert(to_dependent(self), to)

\* x.convert(to), by the class of x
convert(self, to) ==
    IF self.kind = "Dependent" THEN Dependent_convert(self, to)
    ELSE Codec_convert(self, to)

----------------------------------------------------------------------------
(* Conversion chain: construct one object, then convert and classify *)

\* the (pv_min, pv_max) pairs a ParallelTuningParams of the chain is built with:
\* the constructor's defaults and a range that is not the default
ConvRanges == {<<Zero, Hundred>>, <<Zero, Rat(200, 1)>>}

ParIdle == ParallelTuningParams(Zero, Hundred, Hundred, Zero, Zero)
NoCall == [prop |-> "none", value |-> Zero, before |-> ParIdle]
NoZCall == [ku |-> Zero, tu |-> Zero, tuning_type |-> "none", tuning_modifier |-> "none"]
NoRet == DependentTuningParams(Zero, Zero, Zero)

ParQuiet == p = ParIdle /\ p0 = ParIdle /\ call = NoCall /\ perr = "none"
ZNQuiet == zcall = NoZCall /\ zret = NoRet /\ zerr = "none" /\ zwarn = FALSE
ConvQuiet == x = NoRet /\ orig = NoRet /\ trail = <<>> /\ cerr = "none" /\ ctype = "unread"

ConvInit ==
    /\ \/ \E kp \in Vals, ti \in Vals, td \in Vals :
              x = DependentTuningParams(kp, ti, td)
       \/ \E kp \in Vals, ki \in Vals, kd \in Vals :
              x = IndependentTuningParams(kp, ki, kd)
       \/ \E rng \in ConvRanges, pband \in Vals, int \in Vals, deriv \in Vals :
              x = ParallelTuningParams(rng[1], rng[2], pband, int, deriv)
    /\ orig = x
    /\ trail = <<>>
    /\ cerr = "none"
    /\ ctype = "unread"
    /\ ParQuiet
    /\ ZNQuiet

\* y = x.convert(to); the chain goes on from y, or from x when the call raised
Convert(to) ==
    /\ Len(trail) < MaxHops
    /\ LET r == convert(x, to)
       IN  /\ x' = IF r.err = "none" THEN r.ret ELSE x
           /\ cerr' = r.err
    /\ trail' = Append(trail, to)
    /\ ctype' = "unread"
    /\ UNCHANGED <<orig, parvars, znvars>>

\* read x.controller_type
ReadControllerType ==
    /\ ctype = "unread"
    /\ ctype' = controller_type(x)
    /\ UNCHANGED <<x, orig, trail, cerr, parvars, znvars>>

ConvNext ==
    \/ \E to \in TargetKinds : Convert(to)
    \/ ReadControllerType

ConvSpec == ConvInit /\ [][ConvNext]_vars

----------------------------------------------------------------------------
(* One ParallelTuningParams instance and its pv_min / pv_max setters *)

\* ParallelTuningParams.pv_range
pv_range(self) == <<self.pv_min, self.pv_max>>

\* a slip: the ratio of the spans is taken upside down
update_p_band_slip(self, old_range) ==
    LET old_span == FSub(old_range[2], old_range[1])
        new_range == pv_range(self)
        new_span == FSub(new_range[2], new_range[1])
    IN  IF old_span # new_span
        THEN IF new_span = Zero
             THEN [obj |-> self, err |-> "ZeroDivisionError"]
             ELSE [obj |-> [self EXCEPT !.pband = FMul(self.pband, FDiv(old_span, new_span))],
                   err |-> "none"]
        ELSE [obj |-> self, err |-> "none"]

\* ParallelTuningParams._update_p_band: the instance after the call and the
\* error raised; new_span / old_span raises ZeroDivisionError when old_span = 0
update_p_band(self, old_range) ==
    LET old_span == FSub(old_range[2], old_range[1])
        new_range == pv_range(self)
        new_span == FSub(new_range[2], new_range[1])
    IN  IF old_span # new_span
        THEN IF old_span = Zero
             THEN [obj |-> self, err |-> "ZeroDivisionError"]
             ELSE [obj |-> [self EXCEPT !.pband = FMul(self.pband, FDiv(new_span, old_span))],
                   err |-> "none"]
        ELSE [obj |-> self, err |-> "none"]

\* a slip: the bound is stored before the range is validated
pv_min_setter_slip(self, value) ==
    IF value # self.pv_min
    THEN LET old_range == pv_range(self)
             stored == [self EXCEPT !.pv_min = value]
         IN  IF FLe(stored.pv_max, value)
             THEN [obj |-> stored, err |-> "ValueError"]
             ELSE update_p_band(stored, old_range)
    ELSE [obj |-> self, err |-> "none"]

\* ParallelTuningParams.pv_min setter
pv_min_setter(self, value) ==
    IF value # self.pv_min
    THEN IF FLe(self.pv_max, value)
         THEN [obj |-> self, err |-> "ValueError"]
         ELSE LET old_range == pv_range(self)
              IN  update_p_band([self EXCEPT !.pv_min = value], old_range)
    ELSE [obj |-> self, err |-> "none"]

\* ParallelTuningParams.pv_max setter
pv_max_setter(self, value) ==
    IF value # self.pv_max
    THEN IF FLe(value, self.pv_min)
         THEN [obj |-> self, err |-> "ValueError"]
         ELSE LET old_range == pv_range(self)
              IN  update_p_band([self EXCEPT !.pv_max = value], old_range)
    ELSE [obj |-> self, err |-> "none"]

PVVals == {Rat(n, 1) : n \in 0..MaxPV}
\* (int, deriv) pairs the instance is built with
ParTimes == {<<Zero, Zero>>, <<Rat(1, 1), Rat(1, 2)>>}

\* ParallelTuningParams.__init__ stores its arguments as they are
ParInit ==
    /\ \E lo \in PVVals, hi \in PVVals, pband \in Vals, t \in ParTimes :
           p = ParallelTuningParams(lo, hi, pband, t[1], t[2])
    /\ p0 = p
    /\ call = NoCall
    /\ perr = "none"
    /\ ConvQuiet
    /\ ZNQuiet

\* p.pv_min = value
SetPvMin(value) ==
    /\ LET r == pv_min_setter(p, value)
       IN  /\ p' = r.obj
           /\ perr' = r.err
    /\ call' = [prop |-> "pv_min", value |-> value, before |-> p]
    /\ UNCHANGED <<p0, convvars, znvars>>

\* p.pv_max = value
SetPvMax(value) ==
    /\ LET r == pv_max_setter(p, value)
       IN  /\ p' = r.obj
           /\ perr' = r.err
    /\ call' = [prop |-> "pv_max", value |-> value, before |-> p]
    /\ UNCHANGED <<p0, convvars, znvars>>

ParNext ==
    \/ \E value \in PVVals : SetPvMin(value)
    \/ \E value \in PVVals : SetPvMax(value)

ParSpec == ParInit /\ [][ParNext]_vars

----------------------------------------------------------------------------
(* ziegler_nichols *)

TuningModifier == {"PESSEN_INTEGRAL_RULE", "SOME_OVERSHOOT", "NO_OVERSHOOT"}

\* values a caller can pass as tuning_modifier: None, the members of
\* TuningModifier, and two values that are neither: the string 'bogus'
\* (true in a condition) and the empty string (false in a condition)
ModifierArgs == {"None", "bogus", ""} \cup TuningModifier
\* values a caller can pass as tuning_type: the members of TuningType and a
\* value that is none of them
TypeArgs == TuningType \cup {"bogus"}

\* Python's truth value of a tuning_modifier argument
Truthy(m) == m \notin {"None", ""}

Returns(d) == [ret |-> d, err |-> "none"]
Raises(e) == [ret |-> NoRet, err |-> e]

\* a slip: the modifier is validated before the row is chosen, so a modifier
\* given with a P, PI or PD type takes the PID branch's table
ziegler_nichols_slip(ku, tu, tuning_type, tuning_modifier) ==
    LET warned == (tuning_type # "PID") /\ (tuning_modifier # "None")
        out ==
            IF tuning_type \in TuningType /\ Truthy(tuning_modifier)
            THEN IF tuning_modifier = "PESSEN_INTEGRAL_RULE"
                 THEN Returns(DependentTuningParams(
                          FMul(ku, Rat(7, 10)), FMul(tu, Rat(2, 5)), FMul(tu, Rat(3, 20))))
                 ELSE IF tuning_modifier = "SOME_OVERSHOOT"
                 THEN Returns(DependentTuningParams(
                          FDiv(ku, Rat(3, 1)), FDiv(tu, Rat(2, 1)), FDiv(tu, Rat(3, 1))))
                 ELSE IF tuning_modifier = "NO_OVERSHOOT"
                 THEN Returns(DependentTuningParams(
                          FDiv(ku, Rat(5, 1)), FDiv(tu, Rat(2, 1)), FDiv(tu, Rat(3, 1))))
                 ELSE Raises("ValueError: Unsupported tuning modifier")
            ELSE IF tuning_type = "P"
            THEN Returns(DependentTuningParams(FMul(ku, Rat(1, 2)), Zero, Zero))
            ELSE IF tuning_type = "PI"
            THEN Returns(DependentTuningParams(
                     FMul(ku, Rat(9, 20)), FDiv(tu, Rat(6, 5)), Zero))
            ELSE IF tuning_type = "PD"
            THEN Returns(DependentTuningParams(
                     FMul(ku, Rat(4, 5)), Zero, FDiv(tu, Rat(8, 1))))
            ELSE IF tuning_type = "PID"
            THEN Returns(DependentTuningParams(
                     FMul(ku, Rat(3, 5)), FDiv(tu, Rat(2, 1)), FDiv(tu, Rat(8, 1))))
            ELSE Raises("ValueError: Unsupported tuning type")
    IN  [ret |-> out.ret, err |-> out.err, warned |-> warned]

\* ziegler_nichols: what it returns or raises, and whether it logged a warning
ziegler_nichols(ku, tu, tuning_type, tuning_modifier) ==
    LET warned == (tuning_type # "PID") /\ (tuning_modifier # "None")
        out ==
            IF tuning_type = "P"
            THEN Returns(DependentTuningParams(FMul(ku, Rat(1, 2)), Zero, Zero))
            ELSE IF tuning_type = "PI"
            THEN Returns(DependentTuningParams(
                     FMul(ku, Rat(9, 20)), FDiv(tu, Rat(6, 5)), Zero))
            ELSE IF tuning_type = "PD"
            THEN Returns(DependentTuningParams(
                     FMul(ku, Rat(4, 5)), Zero, FDiv(tu, Rat(8, 1))))
            ELSE IF tuning_type = "PID"
            THEN IF ~Truthy(tuning_modifier)
                 THEN Returns(DependentTuningParams(
                          FMul(ku, Rat(3, 5)), FDiv(tu, Rat(2, 1)), FDiv(tu, Rat(8, 1))))
                 ELSE IF tuning_modifier = "PESSEN_INTEGRAL_RULE"
                 THEN Returns(DependentTuningParams(
                          FMul(ku, Rat(7, 10)), FMul(tu, Rat(2, 5)), FMul(tu, Rat(3, 20))))
                 ELSE IF tuning_modifier = "SOME_OVERSHOOT"
                 THEN Returns(DependentTuningParams(
                          FDiv(ku, Rat(3, 1)), FDiv(tu, Rat(2, 1)), FDiv(tu, Rat(3, 1))))
                 ELSE IF tuning_modifier = "NO_OVERSHOOT"
                 THEN Returns(DependentTuningParams(
                          FDiv(ku, Rat(5, 1)), FDiv(tu, Rat(2, 1)), FDiv(tu, Rat(3, 1))))
                 ELSE Raises("ValueError: Unsupported tuning modifier")
            ELSE Raises("ValueError: Unsupported tuning type")
    IN  [ret |-> out.ret, err |-> out.err, warned |-> warned]

ZNInit ==
    /\ ZNQuiet
    /\ ConvQuiet
    /\ ParQuiet

\* the one call ziegler_nichols(ku, tu, tuning_type, tuning_modifier) of a run;
\* the function keeps no state, so a second call would add nothing
CallZieglerNichols(ku, tu, tuning_type, tuning_modifier) ==
    /\ zcall = NoZCall
    /\ LET r == ziegler_nichols(ku, tu, tuning_type, tuning_modifier)
       IN  /\ zret' = r.ret
           /\ zerr' = r.err
           /\ zwarn' = r.warned
    /\ zcall' = [ku |-> ku, tu |-> tu, tuning_type |-> tuning_type,
                 tuning_modifier |-> tuning_modifier]
    /\ UNCHANGED <<convvars, parvars>>

ZNNext ==
    \E ku \in Vals, tu \in Vals, tuning_type \in TypeArgs, tuning_modifier \in ModifierArgs :
        CallZieglerNichols(ku, tu, tuning_type, tuning_modifier)

ZNSpec == ZNInit /\ [][ZNNext]_vars

----------------------------------------------------------------------------
(* The claims *)

\* C1: for an object x of any of the three kinds, x.convert(kind of x) returns
\* a value equal to x field by field (pv_min and pv_max included for Parallel).
C1_IdentityConversion ==
    (Len(trail) = 1 /\ trail[1] = orig.kind) => (cerr = "none" /\ x = orig)

\* C2: assigning pv_min a value >= pv_max, or pv_max a value <= pv_min (the
\* value differing from the current bound), raises the range error and leaves
\* pv_min, pv_max, pband, int and deriv as they were before the call.
C2_RejectLeavesUnchanged ==
    /\ (/\ call.prop = "pv_min"
        /\ call.value # call.before.pv_min
        /\ FLe(call.before.pv_max, call.value))
       => (perr = "ValueError" /\ p = call.before)
    /\ (/\ call.prop = "pv_max"
        /\ call.value # call.before.pv_max
        /\ FLe(call.value, call.before.pv_min))
       => (perr = "ValueError" /\ p = call.before)

C2_Witness ==
    /\ call.prop = "pv_min"
    /\ FLt(call.before.pv_min, call.before.pv_max)
    /\ FLt(call.before.pv_max, call.value)
    /\ perr = "ValueError"
    /\ p = call.before

\* C3: pv_min < pv_max in every reachable state of a ParallelTuningParams
\* instance, from construction with any arguments onwards.
C3_BoundsOrdered == FLt(p.pv_min, p.pv_max)

Span(q) == FSub(q.pv_max, q.pv_min)

\* the call was neither an equal-value assignment nor rejected by the range check
Accepted(c) ==
    \/ /\ c.prop = "pv_min"
       /\ c.value # c.before.pv_min
       /\ ~FLe(c.before.pv_max, c.value)
    \/ /\ c.prop = "pv_max"
       /\ c.value # c.before.pv_max
       /\ ~FLe(c.value, c.before.pv_min)

\* C4: for an instance constructed with pv_min < pv_max, after any sequence of
\* pv_min / pv_max assignments pband / (pv_max - pv_min) equals its value at
\* construction: an accepted change gives pband_new = pband_old * (new_span /
\* old_span), a rejected or equal-value assignment leaves pband alone.
C4_BandRatioPreserved ==
    FLt(p0.pv_min, p0.pv_max) =>
        /\ Span(p) # Zero
        /\ FDiv(p.pband, Span(p)) = FDiv(p0.pband, Span(p0))
        /\ (call.prop # "none" /\ Accepted(call)) =>
               /\ perr = "none"
               /\ p.pband = FMul(call.before.pband, FDiv(Span(p), Span(call.before)))
        /\ (call.prop # "none" /\ ~Accepted(call)) => p.pband = call.before.pband

C4_Witness ==
    /\ FLt(p0.pv_min, p0.pv_max)
    /\ call.prop = "pv_max"
    /\ Accepted(call)
    /\ perr = "none"
    /\ p.pband # Zero
    /\ p.pband # p0.pband
    /\ p.pband # call.before.pband

\* C5: an accepted pv_min or pv_max assignment on an instance whose old span
\* pv_max - pv_min is zero leaves pband as it was and raises no error.
C5_ZeroSpanRescaleIsNoop ==
    (call.prop # "none" /\ Span(call.before) = Zero /\ Accepted(call))
        => (perr = "none" /\ p.pband = call.before.pband)

\* the rule of C6 on the integral-like and derivative-like gains
GainRule(ki, kd) ==
    IF ki = Zero /\ kd = Zero THEN "P"
    ELSE IF kd = Zero THEN "PI"
    ELSE IF ki = Zero THEN "PD"
    ELSE "PID"

\* C6: for every IndependentTuningParams(kp, ki, kd), kp = 0 included,
\* controller_type is decided by ki and kd alone: P when both are zero, PI when
\* only kd is zero, PD when only ki is zero, PID when neither is.
C6_IndependentClassifiedByGains ==
    (x.kind = "Independent" /\ ctype # "unread") => ctype = GainRule(x.ki, x.kd)

\* C7: for kp > 0, ti > 0, td >= 0, converting DependentTuningParams(kp, ti, td)
\* to IndependentTuningParams and back to DependentTuningParams yields the
\* original (kp, ti, td).
C7_RoundTrip ==
    (/\ orig.kind = "Dependent"
     /\ FLt(Zero, orig.kp)
     /\ FLt(Zero, orig.ti)
     /\ FLe(Zero, orig.td)
     /\ trail = <<"Independent", "Dependent">>)
    => (cerr = "none" /\ x = orig)

C7_Witness ==
    /\ orig.kind = "Dependent"
    /\ FLt(Zero, orig.kp)
    /\ orig.kp # Rat(1, 1)
    /\ FLt(Zero, orig.ti)
    /\ FLt(Zero, orig.td)
    /\ trail = <<"Independent", "Dependent">>
    /\ x = orig

\* C8: ziegler_nichols raises the unsupported-modifier error for every
\* tuning_modifier that is neither None nor a member of TuningModifier,
\* whatever the tuning_type among P, PI, PD, PID, and the unsupported-type
\* error for every tuning_type outside TuningType; it returns nothing then.
C8_InvalidArgumentsRejected ==
    zcall # NoZCall =>
        /\ (/\ zcall.tuning_modifier \notin TuningModifier \cup {"None"}
            /\ zcall.tuning_type \in TuningType)
           => zerr = "ValueError: Unsupported tuning modifier"
        /\ zcall.tuning_type \notin TuningType
           => zerr = "ValueError: Unsupported tuning type"

\* C9: for tuning_type P, PI or PD and any member of TuningModifier,
\* ziegler_nichols raises no error, logs a warning, and returns the same
\* (kp, ti, td) as the call without a modifier.
C9_ModifierIgnoredOffPID ==
    (/\ zcall.tuning_type \in {"P", "PI", "PD"}
     /\ zcall.tuning_modifier \in TuningModifier)
    => /\ zerr = "none"
       /\ zwarn
       /\ LET plain == ziegler_nichols(zcall.ku, zcall.tu, zcall.tuning_type, "None")
          IN  plain.err = "none" /\ zret = plain.ret

C9_Witness ==
    /\ zcall.tuning_type = "PD"
    /\ zcall.tuning_modifier = "NO_OVERSHOOT"
    /\ zerr = "none"
    /\ zwarn
    /\ zret.kp # Zero
    /\ zret.td # Zero

====
